---- MODULE Spec2Model ----
(***************************************************************************)
(* Model of the translation session held by the App component              *)
(* (src/App.tsx) and of the translateText service it calls.                *)
(*                                                                         *)
(* The session is the single useState record `state`.  Every user event    *)
(* and every promise continuation is one action.  React flushes the        *)
(* updates made inside a discrete event before the next event is           *)
(* dispatched, so the closures of the handlers (state.inputText,           *)
(* state.sourceLang, ...) are those of the current `state`.                *)
(*                                                                         *)
(* Strings are sequences of characters so that String.prototype.trim is    *)
(* computed rather than assumed.                                           *)
(***************************************************************************)
EXTENDS Naturals, Sequences, FiniteSets

\* ---------------------------------------------------------------- bounds
MaxLen == 1          \* longest text typed, pasted or returned
MaxPending == 2      \* cap on translate requests outstanding at once
MaxExports == 1      \* cap on distinct export closures outstanding at once
MaxCanvasUnits == 2  \* tallest captured canvas, in units of CanvasUnit

\* ------------------------------------------------------------- Language
AUTO == "Auto Detect"
ENGLISH == "English"
CHINESE == "Chinese (Simplified)"
Language == {AUTO, ENGLISH, CHINESE}

\* ---------------------------------------------------------------- texts
Chars == {" ", "a"}
Texts == UNION {[1..n -> Chars] : n \in 0..MaxLen}
Empty == << >>

RECURSIVE TrimStart(_)
TrimStart(s) ==
    IF s = Empty THEN s
    ELSE IF Head(s) = " " THEN TrimStart(Tail(s)) ELSE s

RECURSIVE TrimEnd(_)
TrimEnd(s) ==
    IF s = Empty THEN s
    ELSE IF s[Len(s)] = " " THEN TrimEnd(SubSeq(s, 1, Len(s) - 1)) ELSE s

\* A trim that strips nothing.
Trim_None(s) == s

\* String.prototype.trim
Trim(s) == TrimEnd(TrimStart(s))

\* !s.trim()  /  !s : a string is falsy exactly when it is empty
Falsy(s) == s = Empty

\* --------------------------------------------------------------- state
Null == "null"
ErrorMessage == "Translation failed. Please check your connection and try again."

VARIABLES
    state,      \* the TranslationState record of useState
    pending,    \* translateText calls issued and not yet settled
    pastes,     \* some clipboard read is issued and not yet settled
    exports,    \* the closures of the exports started and not yet finished
    lastOp,     \* history: the event handled by the last step
    undo,       \* history: the tuple before a run of consecutive swaps
    failed      \* history: the last request to complete that no clear or
                \* swap had overtaken failed, and no translate or clear
                \* has run since

vars == <<state, pending, pastes, exports, lastOp, undo, failed>>

TranslationState ==
    [sourceLang : Language, targetLang : Language,
     inputText : Texts, outputText : Texts,
     isTranslating : BOOLEAN, error : {Null, ErrorMessage}]

\* What the last step handled: the event, whether it was the response of a
\* request that a clear or a swap had overtaken, the string translateText
\* returned, and the cause of its failure.
NoCause == "none"
NoArtifact == [pages |-> << >>]
Op(name) ==
    [name |-> name, late |-> FALSE, result |-> << >>, cause |-> NoCause,
     artifact |-> NoArtifact]
Tuple(s) == <<s.sourceLang, s.targetLang, s.inputText, s.outputText>>
NoUndo == [n |-> 0, from |-> << >>]

Init ==
    /\ state = [sourceLang |-> AUTO, targetLang |-> ENGLISH,
                inputText |-> Empty, outputText |-> Empty,
                isTranslating |-> FALSE, error |-> Null]
    /\ pending = << >>
    /\ pastes = FALSE
    /\ exports = {}
    /\ lastOp = Op("init")
    /\ undo = NoUndo
    /\ failed = FALSE

sourceOptions == Language
targetOptions == {l \in Language : l # AUTO}

\* ------------------------------------------------------------ rendering
\* The branch of the output region that is on screen.
Status(s) ==
    IF s.isTranslating THEN "InFlight"
    ELSE IF s.error # Null THEN "Failed"
    ELSE IF ~Falsy(s.outputText) THEN "Output"
    ELSE "Placeholder"

\* A Button passes the click to onClick unless it is disabled or loading.
ButtonFires(disabled, isLoading) == ~disabled /\ ~isLoading

\* ------------------------------------------------------------ translate
\* The two languages are passed in the wrong order.
Request_Swapped(s) ==
    [text |-> s.inputText, sourceLang |-> s.targetLang,
     targetLang |-> s.sourceLang, stale |-> FALSE]

\* The request captures the closure values of the render it was issued in.
Request(s) ==
    [text |-> s.inputText, sourceLang |-> s.sourceLang,
     targetLang |-> s.targetLang, stale |-> FALSE]

\* The loading flag is not raised.
TranslateStart_NoFlag(s) == [s EXCEPT !.error = Null]

\* The error of the previous attempt is kept.
TranslateStart_KeepError(s) == [s EXCEPT !.isTranslating = TRUE]

TranslateStart(s) == [s EXCEPT !.isTranslating = TRUE, !.error = Null]

handleTranslate ==
    IF Falsy(Trim(state.inputText))
    THEN /\ lastOp' = Op("translateNoop")
         /\ UNCHANGED <<state, pending, failed>>
    ELSE /\ Len(pending) < MaxPending
         /\ state' = TranslateStart(state)
         /\ pending' = Append(pending, Request(state))
         /\ lastOp' = Op("translate")
         /\ failed' = FALSE

ClickTranslate ==
    /\ ButtonFires(Falsy(Trim(state.inputText)), state.isTranslating)
    /\ handleTranslate
    /\ undo' = NoUndo
    /\ UNCHANGED <<pastes, exports>>

ClickTranslateRefused ==
    /\ ~ButtonFires(Falsy(Trim(state.inputText)), state.isTranslating)
    /\ lastOp' = Op("refused")
    /\ undo' = NoUndo
    /\ UNCHANGED <<state, pending, pastes, exports, failed>>

ClickRetry ==
    /\ Status(state) = "Failed"
    /\ handleTranslate
    /\ undo' = NoUndo
    /\ UNCHANGED <<pastes, exports>>

\* --------------------------------------------------------- translateText
Undefined == <<"undefined">>     \* response.text absent
Causes == {"network", "model"}   \* what generateContent can throw
ServiceError == "Failed to translate text. Please try again."

\* response.text || ""
ResponseText(r) == IF r = Undefined \/ Falsy(r) THEN Empty ELSE r

\* The ways one call of translateText can settle: the replies the backend
\* can give, and the errors it can raise, are outside the program.
translateText(text, sourceLang, targetLang) ==
    IF Falsy(Trim(text))
    THEN {[ok |-> TRUE, value |-> Empty, cause |-> NoCause]}
    ELSE {[ok |-> TRUE, value |-> ResponseText(r), cause |-> NoCause] :
             r \in Texts \cup {Undefined}}
         \cup {[ok |-> FALSE, value |-> ServiceError, cause |-> c] : c \in Causes}

Remove(q, i) == SubSeq(q, 1, i - 1) \o SubSeq(q, i + 1, Len(q))

\* The continuation forgets to lower the loading flag.
TranslateSuccess_KeepFlag(s, result) == [s EXCEPT !.outputText = result]

TranslateSuccess(s, result) ==
    [s EXCEPT !.outputText = result, !.isTranslating = FALSE]

\* The catch block forgets to lower the loading flag.
TranslateFailure_KeepFlag(s, error) == [s EXCEPT !.error = ErrorMessage]

\* The catch block also drops the output of the previous translation.
TranslateFailure_DropsOutput(s, error) ==
    [s EXCEPT !.isTranslating = FALSE, !.error = ErrorMessage,
              !.outputText = Empty]

TranslateFailure(s, error) ==
    [s EXCEPT !.isTranslating = FALSE, !.error = ErrorMessage]

\* The await of handleTranslate resumes with the result of the call.
TranslateResolved ==
    \E i \in 1..Len(pending) :
    \E o \in translateText(pending[i].text, pending[i].sourceLang,
                           pending[i].targetLang) :
        /\ o.ok
        /\ state' = TranslateSuccess(state, o.value)
        /\ pending' = Remove(pending, i)
        /\ lastOp' = [Op("resolved") EXCEPT !.late = pending[i].stale,
                                            !.result = o.value]
        /\ failed' = IF pending[i].stale THEN failed ELSE FALSE
        /\ undo' = NoUndo
        /\ UNCHANGED <<pastes, exports>>

\* The await of handleTranslate throws and the catch block runs.
TranslateRejected ==
    \E i \in 1..Len(pending) :
    \E o \in translateText(pending[i].text, pending[i].sourceLang,
                           pending[i].targetLang) :
        /\ ~o.ok
        /\ state' = TranslateFailure(state, o.value)
        /\ pending' = Remove(pending, i)
        /\ lastOp' = [Op("rejected") EXCEPT !.late = pending[i].stale,
                                            !.cause = o.cause]
        /\ failed' = IF pending[i].stale THEN failed ELSE TRUE
        /\ undo' = NoUndo
        /\ UNCHANGED <<pastes, exports>>

\* ------------------------------------------------------- swap and clear
\* History only: requests outstanding when the session is cleared or
\* swapped are marked; no code reads the mark.
Supersede(q) == [i \in 1..Len(q) |-> [q[i] EXCEPT !.stale = TRUE]]

\* The AUTO case is missing: always a straight exchange.
SwapLanguages_Straight(s) ==
    [s EXCEPT !.sourceLang = s.targetLang,
              !.targetLang = s.sourceLang,
              !.inputText = s.outputText,
              !.outputText = s.inputText]

\* The swap also clears the error.
SwapLanguages_ClearsError(s) ==
    IF s.sourceLang = AUTO
    THEN [s EXCEPT !.sourceLang = s.targetLang,
                   !.targetLang = ENGLISH,
                   !.inputText = s.outputText,
                   !.outputText = s.inputText,
                   !.error = Null]
    ELSE [s EXCEPT !.sourceLang = s.targetLang,
                   !.targetLang = s.sourceLang,
                   !.inputText = s.outputText,
                   !.outputText = s.inputText,
                   !.error = Null]

\* The fall-back is applied in every case.
SwapLanguages_AlwaysDefault(s) ==
    [s EXCEPT !.sourceLang = s.targetLang,
              !.targetLang = ENGLISH,
              !.inputText = s.outputText,
              !.outputText = s.inputText]

SwapLanguages(s) ==
    IF s.sourceLang = AUTO
    THEN [s EXCEPT !.sourceLang = s.targetLang,
                   !.targetLang = ENGLISH,
                   !.inputText = s.outputText,
                   !.outputText = s.inputText]
    ELSE [s EXCEPT !.sourceLang = s.targetLang,
                   !.targetLang = s.sourceLang,
                   !.inputText = s.outputText,
                   !.outputText = s.inputText]

handleSwapLanguages ==
    /\ state' = SwapLanguages(state)
    /\ pending' = Supersede(pending)
    /\ lastOp' = Op("swap")
    /\ undo' = IF undo.n = 1
               THEN [undo EXCEPT !.n = 2]
               ELSE [n |-> 1, from |-> Tuple(state)]
    /\ UNCHANGED <<pastes, exports, failed>>

\* The error of a failed request survives the clear.
Clear_KeepError(s) == [s EXCEPT !.inputText = Empty, !.outputText = Empty]

Clear(s) == [s EXCEPT !.inputText = Empty, !.outputText = Empty, !.error = Null]

\* The clear button is rendered only while inputText is non-empty.
handleClear ==
    /\ ~Falsy(state.inputText)
    /\ state' = Clear(state)
    /\ pending' = Supersede(pending)
    /\ lastOp' = Op("clear")
    /\ failed' = FALSE
    /\ undo' = NoUndo
    /\ UNCHANGED <<pastes, exports>>

\* ------------------------------------------------------- field updates
setSourceLanguage ==
    \E l \in sourceOptions :
        /\ state' = [state EXCEPT !.sourceLang = l]
        /\ lastOp' = Op("setSource")
        /\ undo' = NoUndo
        /\ UNCHANGED <<pending, pastes, exports, failed>>

setTargetLanguage ==
    \E l \in targetOptions :
        /\ state' = [state EXCEPT !.targetLang = l]
        /\ lastOp' = Op("setTarget")
        /\ undo' = NoUndo
        /\ UNCHANGED <<pending, pastes, exports, failed>>

\* A new input drops the output of the previous translation.
SetInputText_DropsOutput(s, text) ==
    [s EXCEPT !.inputText = text, !.outputText = Empty]

\* The updater of the textarea's onChange and of handlePaste.
SetInputText(s, text) == [s EXCEPT !.inputText = text]

setInputText ==
    \E text \in Texts :
        /\ state' = SetInputText(state, text)
        /\ lastOp' = Op("setInput")
        /\ undo' = NoUndo
        /\ UNCHANGED <<pending, pastes, exports, failed>>

\* ---------------------------------------------------------------- paste
\* The failure is put into the error field of the session.
PasteFailure_SetsError(s) == [s EXCEPT !.error = ErrorMessage]

\* The catch block of handlePaste logs.
PasteFailure(s) == s

\* Any number of reads may be outstanding; a read that settles may or may
\* not be the last of them.
handlePaste ==
    /\ pastes' = TRUE
    /\ lastOp' = Op("paste")
    /\ undo' = NoUndo
    /\ UNCHANGED <<state, pending, exports, failed>>

PasteResolved ==
    \E text \in Texts :
        /\ pastes
        /\ pastes' \in BOOLEAN
        /\ state' = SetInputText(state, text)
        /\ lastOp' = Op("pasted")
        /\ undo' = NoUndo
        /\ UNCHANGED <<pending, exports, failed>>

PasteRejected ==
    /\ pastes
    /\ pastes' \in BOOLEAN
    /\ state' = PasteFailure(state)
    /\ lastOp' = Op("pasteFailed")
    /\ undo' = NoUndo
    /\ UNCHANGED <<pending, exports, failed>>

\* --------------------------------------------------------------- export
\* jsPDF page of format a4, portrait, in mm.
pdfWidth == 210
pdfHeight == 297
imgWidth == pdfWidth - 20
contentHeight == pdfHeight - 40

\* The canvases html2canvas can return: the region is captured at scale 2,
\* its height depends on how much text it holds.
CanvasUnit == 2 * contentHeight
Canvases ==
    {[width |-> 2 * imgWidth, height |-> u * CanvasUnit] : u \in 1..MaxCanvasUnits}

\* imgHeight > pdfHeight - 40, with imgHeight = canvas.height * imgWidth /
\* canvas.width, compared without rounding.
TooTall(canvas) == canvas.height * imgWidth > contentHeight * canvas.width

\* The pages of the document: jsPDF starts with one page, addImage draws on
\* the current page and no page is ever added.  Each page is recorded with
\* the band of canvas rows it carries and whether the band was scaled down.
AssemblePages(canvas) ==
    IF TooTall(canvas)
    THEN << [top |-> 0, bottom |-> canvas.height, scaled |-> TRUE] >>
    ELSE << [top |-> 0, bottom |-> canvas.height, scaled |-> FALSE] >>

\* The output region shows the translation, and not the loading
\* placeholder, the error or the empty placeholder.
ShowsOutput(s) == Status(s) = "Output"

\* What handleExportPDF holds across its await: the languages of its
\* closure, and the canvas, which html2canvas draws from the clone of the
\* region it takes when it is called.
ExportClosure(s) ==
    [sourceLang |-> s.sourceLang, targetLang |-> s.targetLang,
     shown |-> ShowsOutput(s)]

\* The caption is read from the session when the document is assembled.
Caption_Live(e, s) == [source |-> s.sourceLang, target |-> s.targetLang]

\* The caption line of the document.
Caption(e, s) == [source |-> e.sourceLang, target |-> e.targetLang]

Artifact(e, s, canvas) ==
    [caption |-> Caption(e, s), shown |-> e.shown, canvas |-> canvas,
     pages |-> AssemblePages(canvas)]

\* The failure is put into the error field of the session.
ExportFailure_SetsError(s) == [s EXCEPT !.error = ErrorMessage]

\* The catch block of handleExportPDF logs and alerts.
ExportFailure(s) == s

\* The guard looks at the wrong text.
NothingToExport_Input(s) == Falsy(s.inputText)

\* !state.outputText, the disabled prop of the export button and the guard
\* of the handler.
NothingToExport(s) == Falsy(s.outputText)

\* The export button is disabled, and the handler returns at once, while
\* outputText is empty.
handleExportPDF ==
    IF NothingToExport(state)
    THEN /\ lastOp' = Op("exportNoop")
         /\ UNCHANGED exports
    ELSE /\ Cardinality(exports \cup {ExportClosure(state)}) <= MaxExports
         /\ exports' = exports \cup {ExportClosure(state)}
         /\ lastOp' = Op("export")

ClickExport ==
    /\ ButtonFires(NothingToExport(state), FALSE)
    /\ handleExportPDF
    /\ undo' = NoUndo
    /\ UNCHANGED <<state, pending, pastes, failed>>

ClickExportRefused ==
    /\ ~ButtonFires(NothingToExport(state), FALSE)
    /\ lastOp' = Op("exportRefused")
    /\ undo' = NoUndo
    /\ UNCHANGED <<state, pending, pastes, exports, failed>>

\* Several exports with the same closure may be outstanding; one that
\* finishes may or may not be the last of them.
ExportSaved ==
    \E e \in exports :
    \E canvas \in Canvases :
        /\ exports' \in {exports, exports \ {e}}
        /\ lastOp' = [Op("exported") EXCEPT !.artifact = Artifact(e, state, canvas)]
        /\ undo' = NoUndo
        /\ UNCHANGED <<state, pending, pastes, failed>>

ExportFailed ==
    \E e \in exports :
        /\ exports' \in {exports, exports \ {e}}
        /\ state' = ExportFailure(state)
        /\ lastOp' = Op("exportFailed")
        /\ undo' = NoUndo
        /\ UNCHANGED <<pending, pastes, failed>>

Next ==
    \/ ClickTranslate
    \/ ClickTranslateRefused
    \/ ClickRetry
    \/ TranslateResolved
    \/ TranslateRejected
    \/ handleSwapLanguages
    \/ handleClear
    \/ setSourceLanguage
    \/ setTargetLanguage
    \/ setInputText
    \/ handlePaste
    \/ PasteResolved
    \/ PasteRejected
    \/ ClickExport
    \/ ClickExportRefused
    \/ ExportSaved
    \/ ExportFailed

Spec == Init /\ [][Next]_vars

\* The external call settles: a promise that was issued is eventually
\* resolved or rejected.
FairSpec == Spec /\ WF_vars(TranslateResolved \/ TranslateRejected)

TypeOK ==
    /\ state \in TranslationState
    /\ Len(pending) <= MaxPending
    /\ pastes \in BOOLEAN
    /\ Cardinality(exports) <= MaxExports

\* ================================================================ claims
\* Empty or whitespace-only, stated without trim.
IsBlank(s) == \A i \in 1..Len(s) : s[i] = " "

\* The status of the session, read off the two fields the code keeps.
InFlight(s) == s.isTranslating
Failed(s) == ~s.isTranslating /\ s.error # Null
Succeeded(s) == ~s.isTranslating /\ s.error = Null

\* C1: at most one translate request is outstanding at any time; a click on
\* the translate button while one is outstanding is refused and issues no
\* call of translateText.
C1_OneInFlight == Len(pending) <= 1

\* A click was refused while a request was outstanding and the input was
\* translatable.
C1_Witness ==
    /\ lastOp.name = "refused"
    /\ Len(pending) = 1
    /\ state.isTranslating
    /\ ~IsBlank(state.inputText)

\* C2: the response of a request that a clear or a swap has overtaken
\* changes no field of the session.
C2_LateResponseIgnored ==
    [][(lastOp'.late /\ pending' # pending) => state' = state]_vars

\* C3: handleTranslate on an empty or whitespace-only input issues no call
\* and changes nothing, and no call of translateText ever carries such a
\* text.
C3_BlankNeverSent ==
    /\ [](\A i \in 1..Len(pending) : ~IsBlank(pending[i].text))
    /\ [][IsBlank(state.inputText) =>
            /\ Len(pending') <= Len(pending)
            /\ lastOp'.name # "translate"]_vars
    /\ [][lastOp'.name = "translateNoop" =>
            /\ IsBlank(state.inputText)
            /\ state' = state
            /\ pending' = pending]_vars

\* handleTranslate ran on a whitespace-only input.
C3_Witness ==
    /\ lastOp.name = "translateNoop"
    /\ state.inputText = <<" ">>
    /\ pending = << >>

\* C4: handleTranslate on a translatable input raises the loading flag and
\* clears the error at once; the completion of the call lowers the flag and
\* leaves the session succeeded or failed according to its outcome; and,
\* the external call being fair, every request completes and the flag is
\* lowered.
C4_Lifecycle ==
    /\ [][lastOp'.name = "translate" =>
            /\ ~IsBlank(state.inputText)
            /\ InFlight(state')
            /\ state'.error = Null]_vars
    /\ [][lastOp'.name = "translateNoop" => IsBlank(state.inputText)]_vars
    /\ [][(lastOp'.name = "resolved" /\ pending' # pending) =>
            Succeeded(state') /\ ~Failed(state')]_vars
    /\ [][(lastOp'.name = "rejected" /\ pending' # pending) =>
            Failed(state') /\ ~Succeeded(state')]_vars
    /\ [](InFlight(state) <=> pending # << >>)
    /\ (pending # << >>) ~> (pending = << >>)

\* A request issued from an idle session has failed and nothing is
\* outstanding.
C4_Witness ==
    /\ lastOp.name = "rejected"
    /\ ~lastOp.late
    /\ Failed(state)
    /\ pending = << >>

\* C5: handleTranslate issues exactly one call, carrying the inputText,
\* sourceLang and targetLang of the session at that moment, and no other
\* step issues one; when the call resolves the session is succeeded, has
\* no error and shows the string the call returned.
C5_ExactCall ==
    /\ [][lastOp'.name = "translate" =>
            /\ Len(pending') = Len(pending) + 1
            /\ SubSeq(pending', 1, Len(pending)) = pending
            /\ pending'[Len(pending')].text = state.inputText
            /\ pending'[Len(pending')].sourceLang = state.sourceLang
            /\ pending'[Len(pending')].targetLang = state.targetLang]_vars
    /\ [][Len(pending') > Len(pending) => lastOp'.name = "translate"]_vars
    /\ [][(lastOp'.name = "resolved" /\ pending' # pending) =>
            /\ Succeeded(state')
            /\ state'.outputText = lastOp'.result]_vars

\* A request from AUTO to ENGLISH resolved with a non-empty string, which
\* is now the output.
C5_Witness ==
    /\ lastOp.name = "resolved"
    /\ ~lastOp.late
    /\ lastOp.result # Empty
    /\ state.outputText = lastOp.result
    /\ state.sourceLang = AUTO
    /\ state.targetLang = ENGLISH
    /\ Succeeded(state)

\* C6: targetLang is never AUTO, whatever sequence of events has run; a
\* swap from sourceLang = AUTO falls back to ENGLISH, and the target
\* selector offers no AUTO.
C6_TargetNeverAuto ==
    /\ state.targetLang # AUTO
    /\ AUTO \notin targetOptions

\* A swap has just run from sourceLang = AUTO with a target other than the
\* fall-back.
C6_Witness ==
    /\ lastOp.name = "swap"
    /\ undo.n = 1
    /\ undo.from[1] = AUTO
    /\ undo.from[2] = CHINESE
    /\ state.sourceLang = CHINESE
    /\ state.targetLang = ENGLISH

\* C7: two swaps in a row, begun with sourceLang other than AUTO, restore
\* sourceLang, targetLang, inputText and outputText.
C7_SwapTwice ==
    (undo.n = 2 /\ undo.from[1] # AUTO) => Tuple(state) = undo.from

\* Two swaps in a row have run on a session whose languages differ and
\* whose texts differ.
C7_Witness ==
    /\ undo.n = 2
    /\ lastOp.name = "swap"
    /\ undo.from[1] = CHINESE
    /\ undo.from[2] = ENGLISH
    /\ undo.from[3] # undo.from[4]
    /\ Tuple(state) = undo.from

\* C8: clear empties inputText and outputText, sets error to null and keeps
\* both languages.
C8_Clear ==
    /\ [](LET c == Clear(state)
          IN  /\ c.inputText = Empty
              /\ c.outputText = Empty
              /\ c.error = Null
              /\ c.sourceLang = state.sourceLang
              /\ c.targetLang = state.targetLang)
    /\ [][lastOp'.name = "clear" =>
            /\ state'.inputText = Empty
            /\ state'.outputText = Empty
            /\ state'.error = Null
            /\ state'.sourceLang = state.sourceLang
            /\ state'.targetLang = state.targetLang]_vars

\* A clear has run on a session with languages other than the initial
\* ones while a request was outstanding.
C8_Witness ==
    /\ lastOp.name = "clear"
    /\ state.sourceLang = ENGLISH
    /\ state.targetLang = CHINESE
    /\ state.inputText = Empty
    /\ state.isTranslating

\* C9: error is non-null exactly when the last request to complete failed
\* and no translate, clear or swap has overtaken it.
C9_ErrorIffFailed == (state.error # Null) <=> failed

\* C10: a failed call leaves the session failed with the one fixed message,
\* whatever the cause, and leaves both texts and both languages alone.
C10_Failure ==
    [][(lastOp'.name = "rejected" /\ pending' # pending) =>
        /\ Failed(state')
        /\ state'.error = ErrorMessage
        /\ Tuple(state') = Tuple(state)]_vars

\* A call has failed for the second of the causes on a session that holds
\* an input and the output of an earlier translation.
C10_Witness ==
    /\ lastOp.name = "rejected"
    /\ lastOp.cause = "model"
    /\ state.error = ErrorMessage
    /\ state.inputText # Empty
    /\ state.outputText # Empty

\* ----------------------------------------------------------------------
ExportSteps == {"export", "exportNoop", "exportRefused", "exported", "exportFailed"}

\* C11: a canvas whose proportional height exceeds the content area of one
\* page yields ceil(imgHeight / contentHeight) pages, whose bands, none of
\* them scaled, partition the canvas.
C11_Paginated ==
    (lastOp.name = "exported" /\ TooTall(lastOp.artifact.canvas)) =>
        LET a == lastOp.artifact
            pages == a.pages
            CeilDiv(x, y) == (x + y - 1) \div y
        IN  /\ Len(pages) = CeilDiv(a.canvas.height * imgWidth,
                                    contentHeight * a.canvas.width)
            /\ pages[1].top = 0
            /\ pages[Len(pages)].bottom = a.canvas.height
            /\ \A i \in 1..Len(pages) :
                  pages[i].top < pages[i].bottom /\ ~pages[i].scaled
            /\ \A i \in 1..(Len(pages) - 1) : pages[i + 1].top = pages[i].bottom

\* C12: an export invoked while outputText is empty starts no capture,
\* produces no document and changes nothing.
C12_EmptyExportNoop ==
    /\ [][state.outputText = Empty =>
            /\ exports' \subseteq exports
            /\ lastOp'.name # "export"]_vars
    /\ [][lastOp'.name \in {"exportRefused", "exportNoop"} =>
            /\ state.outputText = Empty
            /\ lastOp'.artifact = NoArtifact
            /\ state' = state
            /\ UNCHANGED <<pending, pastes, exports>>]_vars

\* The export button was clicked on a session that holds an input and no
\* output.
C12_Witness ==
    /\ lastOp.name = "exportRefused"
    /\ state.outputText = Empty
    /\ state.inputText # Empty
    /\ exports = {}

\* C13: no step of an export, be it the start, the saved document or the
\* failure, changes a field of the session or an outstanding request.
C13_ExportFrame ==
    [][lastOp'.name \in ExportSteps =>
        /\ state' = state
        /\ pending' = pending]_vars

\* An export failed while a translate request was outstanding.
C13_Witness ==
    /\ lastOp.name = "exportFailed"
    /\ state.isTranslating
    /\ Len(pending) = 1
    /\ state.outputText # Empty

\* C14: a swap from sourceLang = AUTO makes the old target the source,
\* ENGLISH the target, and exchanges the texts; every swap issues no call
\* and keeps the loading flag, the error and the outstanding requests.
C14_SwapEffect ==
    [][lastOp'.name = "swap" =>
        /\ state.sourceLang = AUTO =>
              Tuple(state') = <<state.targetLang, ENGLISH,
                                state.outputText, state.inputText>>
        /\ state.sourceLang # AUTO =>
              Tuple(state') = <<state.targetLang, state.sourceLang,
                                state.outputText, state.inputText>>
        /\ state'.isTranslating = state.isTranslating
        /\ state'.error = state.error
        /\ Len(pending') = Len(pending)
        /\ \A i \in 1..Len(pending) :
              /\ pending'[i].text = pending[i].text
              /\ pending'[i].sourceLang = pending[i].sourceLang
              /\ pending'[i].targetLang = pending[i].targetLang]_vars

\* A swap has run from sourceLang = AUTO on a failed session whose texts
\* differ.
C14_Witness ==
    /\ lastOp.name = "swap"
    /\ undo.n = 1
    /\ undo.from[1] = AUTO
    /\ undo.from[3] # undo.from[4]
    /\ state.error # Null
    /\ state.targetLang = ENGLISH

\* C15: the region captured for a saved document shows the translation
\* output, not the loading placeholder and not the error.
C15_CapturesOutput == lastOp.name = "exported" => lastOp.artifact.shown

\* C16: the caption of a saved document carries the languages the session
\* had when the export was invoked, whatever happened to them since.
C16_CaptionAtInvoke ==
    /\ [][lastOp'.name = "export" =>
            \E e \in exports' :
                /\ exports' = exports \cup {e}
                /\ e.sourceLang = state.sourceLang
                /\ e.targetLang = state.targetLang]_vars
    /\ [][lastOp'.name = "exported" =>
            \E e \in exports :
                /\ lastOp'.artifact.caption.source = e.sourceLang
                /\ lastOp'.artifact.caption.target = e.targetLang]_vars

\* A document was saved after both languages of the session had changed.
C16_Witness ==
    /\ lastOp.name = "exported"
    /\ lastOp.artifact.caption.source # state.sourceLang
    /\ lastOp.artifact.caption.target # state.targetLang

\* C17: typing and a successful paste change inputText and nothing else.
C17_InputFrame ==
    [][lastOp'.name \in {"setInput", "pasted"} =>
        /\ state' = [state EXCEPT !.inputText = state'.inputText]
        /\ UNCHANGED <<pending, exports>>]_vars

\* A paste has put a new input beside the output of an earlier
\* translation.
C17_Witness ==
    /\ lastOp.name = "pasted"
    /\ state.outputText # Empty
    /\ state.inputText # state.outputText
    /\ state.inputText # Empty

\* C18: a failed clipboard read changes nothing of the session.
C18_PasteFailure ==
    [][lastOp'.name = "pasteFailed" =>
        /\ state' = state
        /\ UNCHANGED <<pending, exports>>]_vars

\* A clipboard read failed on a session that holds an input and no error.
C18_Witness ==
    /\ lastOp.name = "pasteFailed"
    /\ state.inputText # Empty
    /\ state.error = Null

\* C19: the loading flag is raised exactly while a call of translateText
\* is outstanding.
C19_FlagIffOutstanding == state.isTranslating <=> Len(pending) >= 1

\* The session was cleared while a call was outstanding, and the flag is
\* still raised.
C19_Witness ==
    /\ lastOp.name = "clear"
    /\ state.isTranslating
    /\ Len(pending) = 1
====
